---------------------------- MODULE Spec2Model ----------------------------
(***************************************************************************)
(* The PSAChecker component (src/src/components/PSAChecker.tsx) as a state *)
(* machine: the two input fields, the loading / result / error state, the  *)
(* checkCertificate handler split at its two await points, and the         *)
(* transport (fetch, response.json) as the environment that settles the    *)
(* promises the handler awaits.                                            *)
(***************************************************************************)
EXTENDS Integers, Sequences, FiniteSets, TLC

(***************************************************************************)
(* Bounds of the model.                                                    *)
(***************************************************************************)
\* Number of clicks on "Check Certificate" in one behaviour.
MaxInvocations == 2

(***************************************************************************)
(* JavaScript values and strings.                                          *)
(***************************************************************************)
Null == [kind |-> "null"]
JsString(s) == [kind |-> "string", text |-> s]
JsObject(entries) == [kind |-> "object", entries |-> entries]
JsError(m) == [kind |-> "Error", message |-> m]

\* JavaScript truthiness, as used by `error &&` and `result &&` in the JSX.
Truthy(v) ==
  CASE v.kind = "null" -> FALSE
    [] v.kind = "string" -> v.text # ""
    [] OTHER -> TRUE

\* Characters String.prototype.trim strips (those the model types).
Whitespace == {" ", "\t", "\n"}

\* String.prototype.trim.
\* (Faulty variant: no trimming, `!apiKey` instead of `!apiKey.trim()`.)
TrimNothing(s) == s
RECURSIVE Trim(_)
Trim(s) ==
  IF s = "" THEN ""
  ELSE IF SubSeq(s, 1, 1) \in Whitespace THEN Trim(SubSeq(s, 2, Len(s)))
  ELSE IF SubSeq(s, Len(s), Len(s)) \in Whitespace
       THEN Trim(SubSeq(s, 1, Len(s) - 1))
  ELSE s

Clamp(n, len) == IF n < 0 THEN 0 ELSE IF n > len THEN len ELSE n

\* String.prototype.substring(a, b): indices clamped to [0, length], swapped
\* when a > b.
Substring(s, a, b) ==
  LET x == Clamp(a, Len(s))
      y == Clamp(b, Len(s))
      lo == IF x < y THEN x ELSE y
      hi == IF x < y THEN y ELSE x
  IN SubSeq(s, lo + 1, hi)

\* s contains sub as a substring.
Contains(s, sub) ==
  \E i \in 1..(Len(s) + 1) :
    /\ i + Len(sub) - 1 <= Len(s)
    /\ SubSeq(s, i, i + Len(sub) - 1) = sub

(***************************************************************************)
(* Inputs of the model: what the user types and what the transport answers.*)
(***************************************************************************)
\* A token longer than the 20 + 10 characters the preview keeps.
LongKey == "eyJhbGciOiJIUzI1NiIsInR5cCI6IkpXVCJ9"

\* Values typed or pasted into the two fields: empty, whitespace only,
\* padded with whitespace, plain.
KeyInputs == {"", " ", "\t\n", " tok ", "tok", LongKey}
CertInputs == {"", " ", " 123 ", "79909125"}

Statuses == {200, 299, 300, 404}

CertBody == "{\"certNumber\":\"79909125\",\"grade\":\"10\"}"
Bodies == {CertBody, "{}", "null", "not json"}

NetworkErrors == {JsError("Failed to fetch")}

\* Response.ok: the status is in 200..299.
ResponseOk(status) == status >= 200 /\ status <= 299

\* Response.json() on the bodies of the model: the parsed value, or the
\* SyntaxError it rejects with.
JsonParse(text) ==
  CASE text = CertBody ->
         [ok |-> TRUE,
          value |-> JsObject({<<"certNumber", "79909125">>, <<"grade", "10">>})]
    [] text = "{}" -> [ok |-> TRUE, value |-> JsObject({})]
    [] text = "null" -> [ok |-> TRUE, value |-> Null]
    [] OTHER ->
         [ok |-> FALSE,
          value |-> JsError("Unexpected token 'o', \"" \o text \o "\" is not valid JSON")]

(***************************************************************************)
(* State.                                                                  *)
(***************************************************************************)
VARIABLES
  apiKey,         \* useState("")
  certNumber,     \* useState("79909125")
  loading,        \* useState(false)
  result,         \* useState<PSAResult | null>(null)
  error,          \* useState<string | null>(null)
  toast,          \* the last toast raised
  inflight,       \* invocation id -> frame of a checkCertificate call suspended at an await
  fetchCalls,     \* number of fetch calls the transport has received
  jsonCalls,      \* number of response.json() calls
  invocations,    \* history: number of checkCertificate calls so far
  hasFailed,      \* history: some invocation has ended in the catch clause
  fieldsState     \* history: "initial" (constructed, no edit yet), "edited",
                  \* or "reinitialized" (constructed again after edits, no edit since)

vars == <<apiKey, certNumber, loading, result, error, toast, inflight,
          fetchCalls, jsonCalls, invocations, hasFailed, fieldsState>>

InitialApiKey == ""
InitialCertNumber == "79909125"

NoToast == [title |-> "", description |-> "", variant |-> ""]

Init ==
  /\ apiKey = InitialApiKey
  /\ certNumber = InitialCertNumber
  /\ loading = FALSE
  /\ result = Null
  /\ error = Null
  /\ toast = NoToast
  /\ inflight = <<>>
  /\ fetchCalls = 0
  /\ jsonCalls = 0
  /\ invocations = 0
  /\ hasFailed = FALSE
  /\ fieldsState = "initial"


(***************************************************************************)
(* The request, and what the page shows.                                   *)
(***************************************************************************)
Endpoint == "https://api.psacard.com/publicapi/cert/GetByCertNumber/"

\* settings (url, method, headers) and the fetch init built from it.
Request(key, cert) ==
  [method |-> "GET",
   url |-> Endpoint \o cert,
   headers |-> {<<"authorization", "bearer " \o key>>},
   mode |-> "cors"]

\* The credential as the Request Preview prints it.
Elide(key) ==
  Substring(key, 0, 20) \o "..." \o Substring(key, Len(key) - 10, Len(key))

\* The Request Preview card is rendered when both fields are non-empty.
PreviewVisible == apiKey # "" /\ certNumber # ""

\* "Exact request that will be sent to PSA API".
RequestPreview(key, cert) ==
  [method |-> "GET",
   url |-> Endpoint \o cert,
   headers |-> {<<"authorization", "bearer " \o Elide(key)>>,
                <<"Accept", "application/json">>,
                <<"Content-Type", "application/json">>},
   mode |-> "cors"]

\* The button's disabled attribute.
\* (Faulty variant: the button without disabled={loading}.)
ButtonNeverDisabled == FALSE
ButtonDisabled == loading

\* The error card and the result card are rendered on truthiness.
ShowsError == Truthy(error)
ShowsResult == Truthy(result)

\* The catch clause's errorMessage.
\* (Faulty variant: the instanceof test inverted.)
ErrorMessageFallbackOnly(err) == "Failed to check certificate"
ErrorMessage(err) ==
  IF err.kind = "Error" THEN err.message ELSE "Failed to check certificate"

\* The message of the Error thrown on !response.ok.
\* (Faulty variant: the status left out of the template.)
HttpErrorMessageNoStatus(status) == "HTTP error!"
HttpErrorMessage(status) == "HTTP error! status: " \o ToString(status)

ApiKeyRequired ==
  [title |-> "API Key Required",
   description |-> "Please enter your PSA API key",
   variant |-> "destructive"]

CertNumberRequired ==
  [title |-> "Certificate Number Required",
   description |-> "Please enter a certificate number",
   variant |-> "destructive"]

\* A call of checkCertificate suspended at `await fetch(...)`: the request
\* the transport was handed and the certNumber the closure captured.
Frame(request, cert) ==
  [pc |-> "await_fetch", request |-> request, certNumber |-> cert,
   status |-> 0, body |-> "", value |-> Null]

Without(f, i) == [j \in (DOMAIN f) \ {i} |-> f[j]]

(***************************************************************************)
(* Field edits.                                                            *)
(***************************************************************************)
SetApiKey(v) ==
  /\ apiKey' = v
  /\ fieldsState' = "edited"
  /\ UNCHANGED <<certNumber, loading, result, error, toast, inflight,
                 fetchCalls, jsonCalls, invocations, hasFailed>>

SetCertNumber(v) ==
  /\ certNumber' = v
  /\ fieldsState' = "edited"
  /\ UNCHANGED <<apiKey, loading, result, error, toast, inflight,
                 fetchCalls, jsonCalls, invocations, hasFailed>>

(***************************************************************************)
(* checkCertificate, up to its first await.                                *)
(***************************************************************************)
\* An early return after a validation toast.
\* (Faulty variant: the state reset placed before the validation.)
RejectClearsOutcome(notice) ==
  /\ toast' = notice
  /\ loading' = FALSE
  /\ result' = Null
  /\ error' = Null
  /\ UNCHANGED <<inflight, fetchCalls, jsonCalls, hasFailed>>
Reject(notice) ==
  /\ toast' = notice
  /\ UNCHANGED <<loading, result, error, inflight, fetchCalls, jsonCalls,
                 hasFailed>>

\* setLoading(true); setError(null); setResult(null).
\* (Faulty variant: setError(null) and setResult(null) missing.)
BeginKeepsOutcome ==
  /\ loading' = TRUE
  /\ UNCHANGED <<error, result>>
Begin ==
  /\ loading' = TRUE
  /\ error' = Null
  /\ result' = Null

CheckCertificate ==
  /\ ~ButtonDisabled
  /\ invocations < MaxInvocations
  /\ invocations' = invocations + 1
  /\ IF Trim(apiKey) = "" THEN Reject(ApiKeyRequired)
     ELSE IF Trim(certNumber) = "" THEN Reject(CertNumberRequired)
     ELSE /\ Begin
          /\ fetchCalls' = fetchCalls + 1
          /\ inflight' = inflight @@
               (invocations' :> Frame(Request(apiKey, certNumber), certNumber))
          /\ UNCHANGED <<toast, jsonCalls, hasFailed>>
  /\ UNCHANGED <<apiKey, certNumber, fieldsState>>

(***************************************************************************)
(* The transport: it settles the promise an invocation is suspended on.    *)
(***************************************************************************)
\* fetch resolves with a Response.
FetchFulfils(i) ==
  /\ inflight[i].pc = "await_fetch"
  /\ \E status \in Statuses, body \in Bodies :
       inflight' = [inflight EXCEPT ![i].pc = "fetch_fulfilled",
                                    ![i].status = status,
                                    ![i].body = body]
  /\ UNCHANGED <<apiKey, certNumber, loading, result, error, toast,
                 fetchCalls, jsonCalls, invocations, hasFailed,
                 fieldsState>>

\* fetch rejects: DNS, connection refused, CORS, ...
FetchRejects(i) ==
  /\ inflight[i].pc = "await_fetch"
  /\ \E err \in NetworkErrors :
       inflight' = [inflight EXCEPT ![i].pc = "fetch_rejected",
                                    ![i].value = err]
  /\ UNCHANGED <<apiKey, certNumber, loading, result, error, toast,
                 fetchCalls, jsonCalls, invocations, hasFailed,
                 fieldsState>>

\* response.json() settles: the body has been read and parsed.
BodySettles(i) ==
  /\ inflight[i].pc = "await_json"
  /\ LET parsed == JsonParse(inflight[i].body)
     IN inflight' = [inflight EXCEPT
                       ![i].pc = IF parsed.ok THEN "json_fulfilled"
                                 ELSE "json_rejected",
                       ![i].value = parsed.value]
  /\ UNCHANGED <<apiKey, certNumber, loading, result, error, toast,
                 fetchCalls, jsonCalls, invocations, hasFailed,
                 fieldsState>>

\* response.json() rejects because the body stream fails.
BodyReadFails(i) ==
  /\ inflight[i].pc = "await_json"
  /\ \E err \in NetworkErrors :
       inflight' = [inflight EXCEPT ![i].pc = "json_rejected",
                                    ![i].value = err]
  /\ UNCHANGED <<apiKey, certNumber, loading, result, error, toast,
                 fetchCalls, jsonCalls, invocations, hasFailed,
                 fieldsState>>

(***************************************************************************)
(* checkCertificate, resumed after an await.                               *)
(***************************************************************************)
\* catch (err) { ... } finally { setLoading(false) }
\* (Faulty variant: no finally clause.)
CatchWithoutFinally(i, err) ==
  /\ error' = JsString(ErrorMessage(err))
  /\ toast' = [title |-> "Error", description |-> ErrorMessage(err),
               variant |-> "destructive"]
  /\ inflight' = Without(inflight, i)
  /\ hasFailed' = TRUE
  /\ UNCHANGED <<loading, result, jsonCalls>>
Catch(i, err) ==
  /\ error' = JsString(ErrorMessage(err))
  /\ toast' = [title |-> "Error", description |-> ErrorMessage(err),
               variant |-> "destructive"]
  /\ loading' = FALSE
  /\ inflight' = Without(inflight, i)
  /\ hasFailed' = TRUE
  /\ UNCHANGED <<result, jsonCalls>>

\* setResult(data); toast(...); finally { setLoading(false) }
\* (Faulty variant: the payload cut down to the certNumber key.)
ThenDropsKeys(i, data) ==
  /\ result' = IF data.kind = "object"
               THEN JsObject({e \in data.entries : e[1] = "certNumber"})
               ELSE data
  /\ toast' = [title |-> "Certificate Found",
               description |-> "Successfully retrieved data for cert #"
                                 \o inflight[i].certNumber,
               variant |-> "default"]
  /\ loading' = FALSE
  /\ inflight' = Without(inflight, i)
  /\ UNCHANGED <<error, jsonCalls, hasFailed>>
Then(i, data) ==
  /\ result' = data
  /\ toast' = [title |-> "Certificate Found",
               description |-> "Successfully retrieved data for cert #"
                                 \o inflight[i].certNumber,
               variant |-> "default"]
  /\ loading' = FALSE
  /\ inflight' = Without(inflight, i)
  /\ UNCHANGED <<error, jsonCalls, hasFailed>>

\* From `await fetch(...)` to `await response.json()` or to the end.
ResumeAfterFetch(i) ==
  /\ inflight[i].pc \in {"fetch_fulfilled", "fetch_rejected"}
  /\ IF inflight[i].pc = "fetch_rejected"
       THEN Catch(i, inflight[i].value)
     ELSE IF ~ResponseOk(inflight[i].status)
       THEN Catch(i, JsError(HttpErrorMessage(inflight[i].status)))
     ELSE /\ inflight' = [inflight EXCEPT ![i].pc = "await_json"]
          /\ jsonCalls' = jsonCalls + 1
          /\ UNCHANGED <<loading, result, error, toast, hasFailed>>
  /\ UNCHANGED <<apiKey, certNumber, fetchCalls, invocations, fieldsState>>

\* From `await response.json()` to the end.
ResumeAfterJson(i) ==
  /\ inflight[i].pc \in {"json_fulfilled", "json_rejected"}
  /\ IF inflight[i].pc = "json_rejected"
       THEN Catch(i, inflight[i].value)
     ELSE Then(i, inflight[i].value)
  /\ UNCHANGED <<apiKey, certNumber, fetchCalls, invocations, fieldsState>>

(***************************************************************************)
(* A new session: the page is loaded again and the component is mounted    *)
(* with its useState initial values; requests of the old page are gone.    *)
(***************************************************************************)
\* (Variant with persistence: the two fields are restored.)
ReinitializeRestores ==
  /\ loading' = FALSE
  /\ result' = Null
  /\ error' = Null
  /\ toast' = NoToast
  /\ inflight' = <<>>
  /\ fieldsState' = IF fieldsState = "initial" THEN "initial" ELSE "reinitialized"
  /\ UNCHANGED <<apiKey, certNumber, fetchCalls, jsonCalls, invocations,
                 hasFailed>>
Reinitialize ==
  /\ apiKey' = InitialApiKey
  /\ certNumber' = InitialCertNumber
  /\ loading' = FALSE
  /\ result' = Null
  /\ error' = Null
  /\ toast' = NoToast
  /\ inflight' = <<>>
  /\ fieldsState' = IF fieldsState = "initial" THEN "initial" ELSE "reinitialized"
  /\ UNCHANGED <<fetchCalls, jsonCalls, invocations, hasFailed>>

(***************************************************************************)
(* Specifications.                                                         *)
(***************************************************************************)
Next ==
  \/ \E v \in KeyInputs : SetApiKey(v)
  \/ \E v \in CertInputs : SetCertNumber(v)
  \/ CheckCertificate
  \/ \E i \in DOMAIN inflight : FetchFulfils(i)
  \/ \E i \in DOMAIN inflight : FetchRejects(i)
  \/ \E i \in DOMAIN inflight : ResumeAfterFetch(i)
  \/ \E i \in DOMAIN inflight : BodySettles(i)
  \/ \E i \in DOMAIN inflight : BodyReadFails(i)
  \/ \E i \in DOMAIN inflight : ResumeAfterJson(i)

\* One session of the component.
Spec == Init /\ [][Next]_vars

\* The handler is resumed once the promise it awaits has settled (the
\* event loop runs the continuation); the transport is under no obligation.
Resume(i) ==
  /\ i \in DOMAIN inflight
  /\ (ResumeAfterFetch(i) \/ ResumeAfterJson(i))

FairSpec == Spec /\ \A i \in 1..MaxInvocations : WF_vars(Resume(i))

\* Several sessions.
NextSessions == Next \/ Reinitialize
SpecSessions == Init /\ [][NextSessions]_vars

(***************************************************************************)
(* Vocabulary of the properties.                                           *)
(***************************************************************************)
\* Empty or whitespace-only.
IsBlank(s) == \A k \in 1..Len(s) : SubSeq(s, k, k) \in Whitespace

InvalidInput == IsBlank(apiKey) \/ IsBlank(certNumber)

\* The step is a call of checkCertificate.
InvocationStep == invocations' = invocations + 1

ValidationNotices == {ApiKeyRequired, CertNumberRequired}

\* The step resumes (or ends) invocation i.
Progresses(i) == i \notin DOMAIN inflight' \/ inflight'[i] # inflight[i]

Ends(i) == i \in DOMAIN inflight /\ i \notin DOMAIN inflight'

InSuccessRange(status) == status \in 200..299

ThreeHeaders(key) ==
  {<<"authorization", "bearer " \o key>>,
   <<"Accept", "application/json">>,
   <<"Content-Type", "application/json">>}

(***************************************************************************)
(* C1: every invocation with a credential or identifier that is empty or   *)
(* whitespace-only issues no network call and raises a validation notice;  *)
(* every other invocation issues exactly one GET, and no other step of the *)
(* component (whatever the response) issues a call.                        *)
(***************************************************************************)
C1_OneCallPerInvocation ==
  [][/\ (InvocationStep /\ InvalidInput) =>
          /\ fetchCalls' = fetchCalls
          /\ inflight' = inflight
          /\ toast' \in ValidationNotices
     /\ (InvocationStep /\ ~InvalidInput) =>
          /\ fetchCalls' = fetchCalls + 1
          /\ DOMAIN inflight' = DOMAIN inflight \cup {invocations'}
          /\ invocations' \notin DOMAIN inflight
          /\ inflight'[invocations'].request.method = "GET"
     /\ ~InvocationStep => fetchCalls' = fetchCalls]_vars

\* A valid lookup has failed without being retried, and an invalid one
\* after it issued nothing.
C1_Witness ==
  /\ invocations = 2
  /\ fetchCalls = 1
  /\ toast \in ValidationNotices
  /\ ShowsError
  /\ inflight = <<>>

(***************************************************************************)
(* C2, as stated: after an invocation with an empty (after trimming)       *)
(* credential or identifier the outcome is Idle, whatever it was before.   *)
(***************************************************************************)
C2_ReturnsToIdle ==
  [][(InvocationStep /\ InvalidInput) =>
       (~loading' /\ result' = Null /\ error' = Null)]_vars

(***************************************************************************)
(* C2, amended: such an invocation leaves the outcome as it was (a payload *)
(* or message displayed before stays), is not in flight afterwards, sets   *)
(* no failure message and signals the validation error by a notice only.   *)
(***************************************************************************)
C2_ValidationKeepsOutcome ==
  [][(InvocationStep /\ InvalidInput) =>
       /\ UNCHANGED <<loading, result, error>>
       /\ ~loading'
       /\ toast' \in ValidationNotices
       /\ fetchCalls' = fetchCalls]_vars

\* A validation notice raised while the payload of an earlier lookup is
\* still displayed.
C2_Witness ==
  /\ toast \in ValidationNotices
  /\ ShowsResult
  /\ ~loading

(***************************************************************************)
(* C3: a valid invocation sets in-flight and clears payload and message;   *)
(* while it lasts it only moves forward (fetch, then body) with in-flight  *)
(* set; it ends once, with in-flight cleared, either in its success branch *)
(* (payload stored, no message, success notice) or in its failure branch   *)
(* (message stored, no payload, error notice); and once the transport has  *)
(* answered or failed, it does end.                                        *)
(***************************************************************************)
EndsInSuccess(i) ==
  /\ result' = inflight[i].value
  /\ error' = Null
  /\ toast'.title = "Certificate Found"

EndsInFailure(i) ==
  /\ ShowsError'
  /\ result' = Null
  /\ toast'.title = "Error"

\* The transport has given invocation i its last answer.
Answered(i) ==
  /\ i \in DOMAIN inflight
  /\ \/ inflight[i].pc \in {"fetch_rejected", "json_fulfilled", "json_rejected"}
     \/ /\ inflight[i].pc = "fetch_fulfilled"
        /\ ~InSuccessRange(inflight[i].status)

C3_LinearToSuccessOrFailure ==
  /\ [][/\ (InvocationStep /\ ~InvalidInput) =>
             (loading' /\ result' = Null /\ error' = Null)
        /\ \A i \in DOMAIN inflight :
             /\ (i \in DOMAIN inflight' /\ inflight'[i] # inflight[i]) =>
                  /\ loading' /\ result' = Null /\ error' = Null
                  /\ <<inflight[i].pc, inflight'[i].pc>> \in
                       {<<"await_fetch", "fetch_fulfilled">>,
                        <<"await_fetch", "fetch_rejected">>,
                        <<"fetch_fulfilled", "await_json">>,
                        <<"await_json", "json_fulfilled">>,
                        <<"await_json", "json_rejected">>}
             /\ Ends(i) =>
                  /\ ~loading'
                  /\ EndsInSuccess(i) # EndsInFailure(i)
                  /\ EndsInSuccess(i) <=> inflight[i].pc = "json_fulfilled"
        /\ \A i \in 1..invocations :
             (i \notin DOMAIN inflight) => (i \notin DOMAIN inflight')]_vars
  /\ \A i \in 1..MaxInvocations :
       Answered(i) ~> (i \notin DOMAIN inflight)

\* A lookup has gone through fetch and body and ended in its success branch.
C3_Witness ==
  /\ ~loading
  /\ inflight = <<>>
  /\ fetchCalls = 1
  /\ jsonCalls = 1
  /\ toast.title = "Certificate Found"
  /\ result = JsObject({})
  /\ error = Null

(***************************************************************************)
(* C4: a valid lookup answered with a status outside 200-299 ends in       *)
(* Failure with a message containing the status code, without parsing the  *)
(* body and without a payload.                                             *)
(***************************************************************************)
C4_HttpErrorIsFailure ==
  [][\A i \in DOMAIN inflight :
       (/\ inflight[i].pc = "fetch_fulfilled"
        /\ ~InSuccessRange(inflight[i].status)
        /\ Progresses(i)) =>
          /\ Ends(i)
          /\ ~loading'
          /\ ShowsError'
          /\ error'.kind = "string"
          /\ Contains(error'.text, ToString(inflight[i].status))
          /\ result' = Null
          /\ jsonCalls' = jsonCalls]_vars

C4_Witness ==
  /\ ~loading
  /\ error = JsString("HTTP error! status: 404")
  /\ result = Null
  /\ jsonCalls = 0
  /\ fetchCalls = 1

(***************************************************************************)
(* C5: a valid lookup answered with a 2xx status goes on to parse the      *)
(* body, and when the body parses it ends with exactly the parsed value as *)
(* payload and no failure message; a parsed object is shown as the result. *)
(***************************************************************************)
C5_SuccessPayloadIsParsedObject ==
  [][\A i \in DOMAIN inflight :
       /\ (/\ inflight[i].pc = "fetch_fulfilled"
           /\ InSuccessRange(inflight[i].status)
           /\ Progresses(i)) =>
             /\ i \in DOMAIN inflight'
             /\ inflight'[i].pc = "await_json"
             /\ jsonCalls' = jsonCalls + 1
       /\ (/\ inflight[i].pc = "json_fulfilled"
           /\ Progresses(i)) =>
             /\ Ends(i)
             /\ ~loading'
             /\ JsonParse(inflight[i].body).ok
             /\ result' = JsonParse(inflight[i].body).value
             /\ error' = Null
             /\ (result'.kind = "object") => ShowsResult']_vars

C5_Witness ==
  /\ ~loading
  /\ result = JsObject({<<"certNumber", "79909125">>, <<"grade", "10">>})
  /\ error = Null
  /\ inflight = <<>>

(***************************************************************************)
(* C6: a transport failure and an unparsable 2xx body both end in Failure  *)
(* with the underlying error's message and never in Success; a Failure     *)
(* leaves in-flight cleared and the trigger enabled.                       *)
(***************************************************************************)
C6_ErrorsEndInFailure ==
  [][\A i \in DOMAIN inflight :
       /\ (/\ inflight[i].pc \in {"fetch_rejected", "json_rejected"}
           /\ Progresses(i)) =>
             /\ Ends(i)
             /\ error' = JsString(inflight[i].value.message)
             /\ ShowsError'
             /\ ~ShowsResult'
       /\ (/\ inflight[i].pc = "await_json"
           /\ ~JsonParse(inflight[i].body).ok
           /\ Progresses(i)) =>
             /\ i \in DOMAIN inflight'
             /\ inflight'[i].pc = "json_rejected"
       /\ (Ends(i) /\ ShowsError') =>
             /\ ~loading'
             /\ ~ButtonDisabled']_vars

\* After a Failure a later lookup has reached Success.
C6_Witness ==
  /\ hasFailed
  /\ ShowsResult
  /\ error = Null
  /\ ~loading
  /\ invocations = 2

(***************************************************************************)
(* C7: the request of a valid lookup is a GET to Endpoint followed by the  *)
(* identifier, with the three headers authorization (bearer and the full   *)
(* credential), Accept and Content-Type, as the Request Preview shows it   *)
(* (the preview eliding the credential).                                   *)
(***************************************************************************)
C7_RequestAsPreviewed ==
  [][(InvocationStep /\ ~InvalidInput) =>
       LET request == inflight'[invocations'].request
           preview == RequestPreview(apiKey, certNumber)
       IN /\ request.method = "GET"
          /\ request.url = Endpoint \o certNumber
          /\ request.headers = ThreeHeaders(apiKey)
          /\ <<"authorization", "bearer " \o Elide(apiKey)>> \notin request.headers
          /\ PreviewVisible
          /\ request.method = preview.method
          /\ request.url = preview.url
          /\ {h[1] : h \in request.headers} = {h[1] : h \in preview.headers}]_vars

(***************************************************************************)
(* C8, as stated: nothing guards against starting a second lookup while    *)
(* one is in flight (the trigger stays enabled).                           *)
(***************************************************************************)
C8_TriggerEnabledInFlight == (DOMAIN inflight # {}) => ~ButtonDisabled

(***************************************************************************)
(* C8, amended: the trigger is disabled while a lookup is in flight, so at *)
(* most one request is in flight at any time and the in-flight flag is set *)
(* exactly while there is one.                                             *)
(***************************************************************************)
C8_AtMostOneInFlight ==
  /\ Cardinality(DOMAIN inflight) <= 1
  /\ loading <=> (DOMAIN inflight # {})

\* A second lookup in flight after the first has ended.
C8_Witness ==
  /\ invocations = 2
  /\ fetchCalls = 2
  /\ DOMAIN inflight = {2}
  /\ loading

(***************************************************************************)
(* C9, as stated: re-initializing after a field was written restores the   *)
(* value written.                                                          *)
(***************************************************************************)
C9_RoundTrip ==
  [][(fieldsState = "edited" /\ fieldsState' = "reinitialized") =>
       (apiKey' = apiKey /\ certNumber' = certNumber)]_vars

(***************************************************************************)
(* C9, amended: nothing is persisted; at construction and after every      *)
(* re-initialization, whatever was written before, the credential is empty *)
(* and the identifier is the default "79909125".                           *)
(***************************************************************************)
C9_RestartsFromDefaults ==
  (fieldsState \in {"initial", "reinitialized"}) =>
     (apiKey = "" /\ certNumber = "79909125")

\* Re-initialized after an edit.
C9_Witness ==
  /\ fieldsState = "reinitialized"
  /\ apiKey = ""
  /\ certNumber = "79909125"

(***************************************************************************)
(* C10: in every reachable state the payload and the failure message are   *)
(* not both set, and neither is set while the in-flight flag is true.      *)
(***************************************************************************)
C10_OneOutcomeLive ==
  /\ ~(result # Null /\ error # Null)
  /\ loading => (result = Null /\ error = Null)

\* A lookup in flight after an earlier one failed: the message is cleared.
C10_Witness ==
  /\ loading
  /\ hasFailed
  /\ error = Null
  /\ result = Null

=============================================================================
